---- MODULE Spec2Model ----
(***************************************************************************)
(* Model of the audio-visual data pipeline of Aud-vis (src/src/dataset.py):*)
(* the corpus index built by AudioVisualDataset.__init__, the constrained  *)
(* batch sampler VideoBatchSampler, and the per-sample loader              *)
(* AudioVisualDataset.__getitem__ with the two decoders it calls.          *)
(***************************************************************************)
EXTENDS Integers, Sequences, FiniteSets

VARIABLES
    directory,      \* the file stems that data_root.glob("*.mp4") finds
    ds_state,       \* "unbuilt", "built", or "raised" (__init__ threw)
    video_files,    \* self.video_files: sorted sequence of stems
    vid_nums,       \* self.vid_nums: source id of each flat index
    vid_to_files,   \* self.vid_to_files: source id -> sequence of stems
    batch_size,     \* VideoBatchSampler.batch_size (0 before construction)
    spc,            \* sampler position: "none", "ready", "walking", "done"
    all_indices,    \* the shuffled permutation of range(total_samples)
    pos,            \* how many entries of all_indices the loop has visited
    current_batch,  \* the batch under construction
    used_vids,      \* source ids already placed in current_batch
    emitted,        \* the batches yielded so far in this epoch, in order
    skipped,        \* the indices the loop visited and did not append
    trailing,       \* how many times line 110 yielded in this epoch
    lpc,            \* loader position inside __getitem__ and its callees
    cur_idx,        \* the idx __getitem__ was called with (-1 when idle)
    cond,           \* the condition of the media file behind cur_idx
    audio_container,\* container of extract_audio_from_video
    video_container,\* container of load_and_preprocess_video
    audio_pending,  \* return value stashed by a return inside try/except
    audio,          \* what extract_audio_from_video returned
    video_frame,    \* what load_and_preprocess_video returned
    exc,            \* the exception in flight ("none" when there is none)
    item,           \* the record __getitem__ returned
    cpc,            \* collate_fn position: "idle", "copy", "returned"
    c_batch,        \* the list of samples collate_fn was called with
    audio_padded,   \* the padded audio tensor, a sequence of rows
    c_i,            \* the loop index i of collate_fn
    c_out,          \* the batch collate_fn returned
    scan_pc,        \* frame scan position: "idle", "scanning", "stopped", "exhausted"
    original_fps,   \* float(video_stream.average_rate)
    tb_den,         \* ticks per second: video_stream.time_base = 1 / tb_den
    chosen_index,   \* the candidate frame index drawn
    chosen_pts,     \* its timestamp in time-base units
    first_frame,    \* the frame the seek landed on
    next_frame,     \* the next frame container.decode will yield
    closest_frame,  \* closest_frame (-1 for None)
    min_pts_diff,   \* min_pts_diff (-1 for infinity)
    stopped_at,     \* the frame at which the loop hit break (-1 for none)
    tpc,            \* trainer position: "none", "built", "epoch", "done",
                    \* "init_raised", "sched_raised"
    num_epochs,     \* config['num_epochs']
    grad_accum,     \* gradient_accumulation_steps
    total_steps,    \* total_steps given to OneCycleLR
    epoch,          \* epoch of the loop in train
    consumed,       \* batches of this epoch the loop body has received
    accumulation_counter,
    sched_calls,    \* calls of scheduler_projection.step()
    global_step,    \* self.global_step
    kpc,            \* save_checkpoint position: "idle", "writing", "written"
    fs,             \* output_dir: a set of <<file name, content>>
    saving,         \* the <<epoch, step>> save_checkpoint was called with
    saves,          \* calls of save_checkpoint so far
    latest          \* what find_latest_checkpoint returned last:
                    \* <<>> before any call, <<"None">>, or <<name, content>>

indexVars   == <<directory, ds_state, video_files, vid_nums, vid_to_files>>
samplerVars == <<batch_size, spc, all_indices, pos, current_batch, used_vids,
                 emitted, skipped, trailing>>
loaderVars  == <<lpc, cur_idx, cond, audio_container, video_container,
                 audio_pending, audio, video_frame, exc, item>>
collateVars == <<cpc, c_batch, audio_padded, c_i, c_out>>
scanVars    == <<scan_pc, original_fps, tb_den, chosen_index, chosen_pts,
                 first_frame, next_frame, closest_frame, min_pts_diff,
                 stopped_at>>
trainVars   == <<tpc, num_epochs, grad_accum, total_steps, epoch, consumed,
                 accumulation_counter, sched_calls, global_step>>
ckptVars    == <<kpc, fs, saving, saves, latest>>
extraVars   == <<collateVars, scanVars, trainVars, ckptVars>>
vars        == <<indexVars, samplerVars, loaderVars, extraVars>>

----------------------------------------------------------------------------
(* Bounds of the model.                                                    *)
MaxVid   == 3    \* source ids 1..MaxVid in the generated corpora
MaxSeg   == 2    \* at most MaxSeg segments per source id
MaxFiles == 4    \* at most MaxFiles files in a generated corpus
MaxBatch == 3    \* batch sizes 1..MaxBatch
MaxWave    == 2  \* waveforms of 0..MaxWave samples in the collated lists
MaxCollate == 2  \* lists of 1..MaxCollate samples given to collate_fn

----------------------------------------------------------------------------
(* File names.  A stem is the sequence of characters of Path.stem.         *)
Digits == {"0", "1", "2", "3", "4", "5", "6", "7", "8", "9"}

DigitChar == [n \in 0..9 |->
    CASE n = 0 -> "0" [] n = 1 -> "1" [] n = 2 -> "2" [] n = 3 -> "3"
      [] n = 4 -> "4" [] n = 5 -> "5" [] n = 6 -> "6" [] n = 7 -> "7"
      [] n = 8 -> "8" [] OTHER -> "9"]

DigitVal(c) == CHOOSE n \in 0..9 : DigitChar[n] = c

\* Code point of a character, as Python compares strings.
CharCode(c) == IF c \in Digits THEN 48 + DigitVal(c)
               ELSE IF c = "_" THEN 95 ELSE 120

RECURSIVE LexLess(_, _)
LexLess(a, b) ==
    IF a = <<>> THEN b # <<>>
    ELSE IF b = <<>> THEN FALSE
    ELSE IF Head(a) # Head(b) THEN CharCode(Head(a)) < CharCode(Head(b))
    ELSE LexLess(Tail(a), Tail(b))

\* sorted(list(glob)): the stems in ascending lexicographic order.
RECURSIVE SortedFiles(_)
SortedFiles(S) ==
    IF S = {} THEN <<>>
    ELSE LET m == CHOOSE x \in S : \A y \in S \ {x} : LexLess(x, y)
         IN  <<m>> \o SortedFiles(S \ {m})

\* str.split('_')
RECURSIVE Split(_)
Split(s) ==
    IF s = <<>> THEN << <<>> >>
    ELSE LET rest == Split(Tail(s))
         IN  IF Head(s) = "_" THEN << <<>> >> \o rest
             ELSE << <<Head(s)>> \o Head(rest) >> \o Tail(rest)

\* int(token) raises ValueError unless the token is a non-empty digit string.
IntParses(tok) == tok # <<>> /\ \A i \in 1..Len(tok) : tok[i] \in Digits

RECURSIVE IntOf(_)
IntOf(tok) ==
    IF Len(tok) = 1 THEN DigitVal(tok[1])
    ELSE 10 * IntOf(SubSeq(tok, 1, Len(tok) - 1)) + DigitVal(tok[Len(tok)])

\* int(file.stem.split('_')[0])
VidParses(stem) == IntParses(Split(stem)[1])
VidOf(stem)     == IntOf(Split(stem)[1])

\* int(video_path.stem.split('_')[1]): IndexError without a second token,
\* ValueError when it is not a number.
SegParses(stem) == Len(Split(stem)) >= 2 /\ IntParses(Split(stem)[2])
SegOf(stem)     == IntOf(Split(stem)[2])

----------------------------------------------------------------------------
(* The directories the model draws data_root from.                         *)
Stem(v, s) == <<DigitChar[v], "_", DigitChar[s]>>

BadVidStem == <<"x", "_", "0">>     \* no numeric source id
BadSegStem == <<"1", "_", "x">>     \* numeric source id, no numeric segment

\* v |-> number of segments of source id v, at most MaxFiles files in all.
RECURSIVE SumTo(_, _)
SumTo(f, n) == IF n = 0 THEN 0 ELSE f[n] + SumTo(f, n - 1)

SegmentCounts == {f \in [1..MaxVid -> 0..MaxSeg] : SumTo(f, MaxVid) <= MaxFiles}

GoodFiles(f) == UNION {{Stem(v, s) : s \in 0..(f[v] - 1)} : v \in 1..MaxVid}

\* The corpus of the spec's index example: 3_0, 3_1, 7_0.
ExampleDir == {<<"3", "_", "0">>, <<"3", "_", "1">>, <<"7", "_", "0">>}

\* The corpus of the spec's sampler example: three source ids, two segments each.
PairsDir == {<<"1", "_", "0">>, <<"1", "_", "1">>, <<"2", "_", "0">>,
             <<"2", "_", "1">>, <<"3", "_", "0">>, <<"3", "_", "1">>}

Directories ==
    {GoodFiles(f) \cup extra : f \in SegmentCounts,
                               extra \in SUBSET {BadVidStem, BadSegStem}}
    \cup {ExampleDir, PairsDir}

----------------------------------------------------------------------------
(* AudioVisualDataset.__init__                                             *)
Range(s) == {s[i] : i \in 1..Len(s)}

\* The files of source id v, in the order of the sorted listing.
FilesOf(files, v) == SelectSeq(files, LAMBDA st : VidOf(st) = v)

\* [ok, video_files, vid_nums, vid_to_files]; ok = FALSE when __init__ raises:
\* int() on line 123 for a stem without a numeric first token, max([]) on
\* line 129 for an empty listing.
BuildIndex(dir) ==
    LET files == SortedFiles(dir) IN
    IF (\E i \in 1..Len(files) : ~VidParses(files[i])) \/ files = <<>>
    THEN [ok |-> FALSE, video_files |-> <<>>, vid_nums |-> <<>>,
          vid_to_files |-> <<>>]
    ELSE [ok |-> TRUE,
          video_files |-> files,
          vid_nums |-> [i \in 1..Len(files) |-> VidOf(files[i])],
          vid_to_files |-> [v \in {VidOf(st) : st \in Range(files)} |->
                               FilesOf(files, v)]]

DatasetInit ==
    /\ ds_state = "unbuilt"
    /\ LET r == BuildIndex(directory) IN
         /\ ds_state' = IF r.ok THEN "built" ELSE "raised"
         /\ video_files' = r.video_files
         /\ vid_nums' = r.vid_nums
         /\ vid_to_files' = r.vid_to_files
    /\ UNCHANGED <<directory, samplerVars, loaderVars, extraVars>>

----------------------------------------------------------------------------
(* VideoBatchSampler                                                       *)
\* __init__(vid_nums, batch_size)
SamplerInit(B) ==
    /\ ds_state = "built"
    /\ spc = "none"
    /\ batch_size' = B
    /\ spc' = "ready"
    /\ UNCHANGED <<indexVars, all_indices, pos, current_batch, used_vids,
                   emitted, skipped, trailing, loaderVars, extraVars>>

total_samples == Len(vid_nums)

\* A __len__ that forgets the division.
SamplerLenTotal == total_samples

\* __len__
SamplerLen == total_samples \div batch_size

\* All orders random.shuffle can leave list(range(total_samples)) in.
Shuffles(n) ==
    {p \in [1..n -> 0..(n - 1)] : \A i, j \in 1..n : p[i] = p[j] => i = j}

\* __iter__ up to the loop: shuffle, empty batch, empty set.  The sampler
\* keeps nothing from one epoch to the next, so one epoch is modelled.
SamplerIter ==
    /\ spc = "ready"
    /\ \E p \in Shuffles(total_samples) : all_indices' = p
    /\ pos' = 0
    /\ current_batch' = <<>>
    /\ used_vids' = {}
    /\ emitted' = <<>>
    /\ skipped' = {}
    /\ trailing' = 0
    /\ spc' = "walking"
    /\ UNCHANGED <<indexVars, batch_size, loaderVars, extraVars>>

\* A loop body that appends every index.
AdmitsAny(vid, used) == TRUE

\* Whether the loop body appends idx (line 101).
Admits(vid, used) == vid \notin used

\* A size test that yields one append too late.
BatchFullLate(batch, B) == Len(batch) = B + 1

\* Whether the batch is yielded after the append (line 104).
BatchFull(batch, B) == Len(batch) = B

\* A yield that forgets to reset used_vids.
UsedKept(used, vid) == used \cup {vid}

\* used_vids after a yield (line 107).
UsedAfterYield(used, vid) == {}

\* One iteration of the for loop, lines 99-107.
SamplerVisit ==
    /\ spc = "walking"
    /\ pos < Len(all_indices)
    /\ LET idx == all_indices[pos + 1]
           vid == vid_nums[idx + 1]
       IN  IF Admits(vid, used_vids)
           THEN LET batch == Append(current_batch, idx) IN
                IF BatchFull(batch, batch_size)
                THEN /\ emitted' = Append(emitted, batch)
                     /\ current_batch' = <<>>
                     /\ used_vids' = UsedAfterYield(used_vids, vid)
                     /\ skipped' = skipped
                ELSE /\ emitted' = emitted
                     /\ current_batch' = batch
                     /\ used_vids' = used_vids \cup {vid}
                     /\ skipped' = skipped
           ELSE /\ skipped' = skipped \cup {idx}
                /\ UNCHANGED <<emitted, current_batch, used_vids>>
    /\ pos' = pos + 1
    /\ UNCHANGED <<indexVars, batch_size, spc, all_indices, trailing, loaderVars, extraVars>>

\* A final yield without the emptiness test.
YieldsAlways(batch) == TRUE

\* Whether line 109 yields the batch left over after the loop.
YieldsTrailing(batch) == batch # <<>>

\* Lines 109-110, then the generator is exhausted.
SamplerFinish ==
    /\ spc = "walking"
    /\ pos = Len(all_indices)
    /\ IF YieldsTrailing(current_batch)
       THEN /\ emitted' = Append(emitted, current_batch)
            /\ trailing' = trailing + 1
       ELSE UNCHANGED <<emitted, trailing>>
    /\ spc' = "done"
    /\ UNCHANGED <<indexVars, batch_size, all_indices, pos, current_batch,
                   used_vids, skipped, loaderVars, extraVars>>

----------------------------------------------------------------------------
(* AudioVisualDataset.__getitem__ and the decoders it calls.               *)
(* One call is modelled: a call keeps nothing for the next one.            *)

\* What can be wrong with the media file behind a path.
Conditions ==
    [readable      : BOOLEAN,   \* av.open succeeds
     audio_stream  : BOOLEAN,   \* container.streams.audio[0] exists
     audio_decodes : BOOLEAN,   \* decode, resample and concatenate succeed
     video_stream  : BOOLEAN,   \* container.streams.video[0] exists
     video_decodes : BOOLEAN,   \* seek and decode succeed
     frame_found   : BOOLEAN,   \* the scan saw at least one frame
     audio_len     : {16000, 16331}]  \* samples in a decoded track

AudioFallbackLen == 16331    \* torch.zeros(16331) in extract_audio_from_video
SentinelAudioLen == 16331    \* torch.zeros(16331) in __getitem__

Zeros(n)      == [len |-> n, zero |-> TRUE]
Waveform(n)   == [len |-> n, zero |-> FALSE]
ZeroFrame     == [shape |-> <<3, 224, 224>>, zero |-> TRUE]
DecodedFrame  == [shape |-> <<3, 224, 224>>, zero |-> FALSE]

GetItem(idx, c) ==
    /\ ds_state = "built"
    /\ lpc = "idle"
    /\ idx \in 0..(Len(video_files) - 1)
    /\ cur_idx' = idx
    /\ cond' = c
    /\ lpc' = "audio_open"
    /\ UNCHANGED <<indexVars, samplerVars, audio_container, video_container,
                   audio_pending, audio, video_frame, exc, item, extraVars>>

\* extract_audio_from_video, line 27.
AudioOpen ==
    /\ lpc = "audio_open"
    /\ IF cond.readable
       THEN /\ audio_container' = "open"
            /\ lpc' = "audio_decode"
            /\ exc' = exc
       ELSE /\ exc' = "AVError"
            /\ lpc' = "audio_except"
            /\ audio_container' = audio_container
    /\ UNCHANGED <<indexVars, samplerVars, cur_idx, cond, video_container,
                   audio_pending, audio, video_frame, item, extraVars>>

\* Lines 28-40: stream lookup, decode loop, close, concatenate, return.
AudioDecode ==
    /\ lpc = "audio_decode"
    /\ IF ~cond.audio_stream
       THEN /\ exc' = "IndexError"
            /\ lpc' = "audio_except"
            /\ UNCHANGED <<audio_container, audio_pending>>
       ELSE IF ~cond.audio_decodes
       THEN /\ exc' = "AVError"
            /\ lpc' = "audio_except"
            /\ UNCHANGED <<audio_container, audio_pending>>
       ELSE /\ audio_container' = "closed"
            /\ audio_pending' = Waveform(cond.audio_len)
            /\ lpc' = "audio_finally"
            /\ exc' = exc
    /\ UNCHANGED <<indexVars, samplerVars, cur_idx, cond, video_container,
                   audio, video_frame, item, extraVars>>

\* Lines 41-43: the bare except swallows the exception and returns zeros.
AudioExcept ==
    /\ lpc = "audio_except"
    /\ exc' = "none"
    /\ audio_pending' = Zeros(AudioFallbackLen)
    /\ lpc' = "audio_finally"
    /\ UNCHANGED <<indexVars, samplerVars, cur_idx, cond, audio_container,
                   video_container, audio, video_frame, item, extraVars>>

\* Whether `if container:` on line 45 can be evaluated: the local is bound
\* only once av.open has returned.
ContainerBound(c) == c # "unbound"

\* Lines 44-46: the finally block.  Reading the unbound local raises
\* UnboundLocalError, which replaces the pending return value.
AudioFinally ==
    /\ lpc = "audio_finally"
    /\ IF ContainerBound(audio_container)
       THEN /\ audio_container' = "closed"
            /\ audio' = audio_pending
            /\ lpc' = "video_open"
            /\ exc' = exc
       ELSE /\ exc' = "UnboundLocalError"
            /\ lpc' = "audio_raised"
            /\ UNCHANGED <<audio_container, audio>>
    /\ UNCHANGED <<indexVars, samplerVars, cur_idx, cond, video_container,
                   audio_pending, video_frame, item, extraVars>>

\* load_and_preprocess_video, line 52.
VideoOpen ==
    /\ lpc = "video_open"
    /\ IF cond.readable
       THEN /\ video_container' = "open"
            /\ lpc' = "video_decode"
            /\ exc' = exc
       ELSE /\ exc' = "AVError"
            /\ lpc' = "video_raised"
            /\ video_container' = video_container
    /\ UNCHANGED <<indexVars, samplerVars, cur_idx, cond, audio_container,
                   audio_pending, audio, video_frame, item, extraVars>>

\* Lines 53-73: stream lookup, seek, forward scan.  Nothing here is inside
\* a try block, so an exception leaves the function at once.
VideoDecode ==
    /\ lpc = "video_decode"
    /\ IF ~cond.video_stream
       THEN /\ exc' = "IndexError"
            /\ lpc' = "video_raised"
       ELSE IF ~cond.video_decodes
       THEN /\ exc' = "AVError"
            /\ lpc' = "video_raised"
       ELSE /\ lpc' = "video_close"
            /\ exc' = exc
    /\ UNCHANGED <<indexVars, samplerVars, cur_idx, cond, audio_container,
                   video_container, audio_pending, audio, video_frame, item, extraVars>>

\* Lines 75-84: close, then the no-frame error or the processed frame.
VideoClose ==
    /\ lpc = "video_close"
    /\ video_container' = "closed"
    /\ IF cond.frame_found
       THEN /\ video_frame' = DecodedFrame
            /\ lpc' = "build_record"
            /\ exc' = exc
       ELSE /\ exc' = "ValueError"
            /\ lpc' = "video_raised"
            /\ video_frame' = video_frame
    /\ UNCHANGED <<indexVars, samplerVars, cur_idx, cond, audio_container,
                   audio_pending, audio, item, extraVars>>

\* Lines 140-146: the record of a loaded clip.
GetItemReturn ==
    /\ lpc = "build_record"
    /\ LET path == video_files[cur_idx + 1] IN
       IF SegParses(path)
       THEN /\ item' = [video_path   |-> path,
                        video_frames |-> video_frame,
                        audio        |-> audio,
                        vid_num      |-> VidOf(path),
                        segment_num  |-> SegOf(path)]
            /\ lpc' = "returned"
            /\ exc' = exc
       ELSE /\ exc' = IF Len(Split(path)) < 2 THEN "IndexError" ELSE "ValueError"
            /\ lpc' = "record_raised"
            /\ item' = item
    /\ UNCHANGED <<indexVars, samplerVars, cur_idx, cond, audio_container,
                   video_container, audio_pending, audio, video_frame, extraVars>>

\* A handler that names the decode errors only.
CatchesDecodeErrors(e) == e \in {"AVError", "IndexError", "ValueError"}

\* What `except Exception` on line 147 catches.
Catches(e) == e \in {"AVError", "IndexError", "ValueError", "UnboundLocalError"}

\* Lines 149-155.
Sentinel(path) ==
    [video_path   |-> path,
     video_frames |-> ZeroFrame,
     audio        |-> Zeros(SentinelAudioLen),
     vid_num      |-> -1,
     segment_num  |-> -1]

\* Lines 147-155: an exception raised inside the try block.
GetItemExcept ==
    /\ lpc \in {"audio_raised", "video_raised", "record_raised"}
    /\ IF Catches(exc)
       THEN /\ item' = Sentinel(video_files[cur_idx + 1])
            /\ exc' = "none"
            /\ lpc' = "returned"
       ELSE /\ lpc' = "raised"
            /\ UNCHANGED <<item, exc>>
    /\ UNCHANGED <<indexVars, samplerVars, cur_idx, cond, audio_container,
                   video_container, audio_pending, audio, video_frame, extraVars>>

LoaderStep ==
    \/ AudioOpen
    \/ AudioDecode
    \/ AudioExcept
    \/ AudioFinally
    \/ VideoOpen
    \/ VideoDecode
    \/ VideoClose
    \/ GetItemReturn
    \/ GetItemExcept

----------------------------------------------------------------------------
(* collate_fn (the same text in src/src/dataset.py and src/train.py).      *)
(* collateRest: the variables of the other components, untouched here.     *)
(* Here a waveform is the sequence of its samples, scaled down to at most  *)
(* MaxWave of them, so that padding can be read position by position.      *)
collateRest == <<scanVars, trainVars, ckptVars>>

AudioValues == {0, 1}

Waves == UNION {[1..n -> AudioValues] : n \in 0..MaxWave}

CollatePaths == {Stem(1, 0), Stem(2, 1)}

\* Records as __getitem__ returns them: decoded clips and sentinels.
CollateSamples ==
    {[video_path |-> p, video_frames |-> DecodedFrame, audio |-> a,
      vid_num |-> VidOf(p), segment_num |-> SegOf(p)] :
        p \in CollatePaths, a \in Waves}
    \cup
    {[video_path |-> p, video_frames |-> ZeroFrame,
      audio |-> [k \in 1..MaxWave |-> 0],
      vid_num |-> -1, segment_num |-> -1] : p \in CollatePaths}

CollateLists == UNION {[1..n -> CollateSamples] : n \in 1..MaxCollate}

\* max(item['audio'].shape[0] for item in batch)
RECURSIVE MaxAudioLen(_)
MaxAudioLen(batch) ==
    IF Len(batch) = 1 THEN Len(batch[1].audio)
    ELSE LET m == MaxAudioLen(Tail(batch))
         IN  IF Len(Head(batch).audio) > m THEN Len(Head(batch).audio) ELSE m

\* A tensor allocated without being cleared (torch.ones in place of zeros).
OnesTensor(rows, width) == [i \in 1..rows |-> [k \in 1..width |-> 1]]

\* torch.zeros(len(batch), max_audio_len)
ZerosTensor(rows, width) == [i \in 1..rows |-> [k \in 1..width |-> 0]]

\* audio_padded[i, :audio_len] = item['audio']
CopyRow(row, wave) ==
    [k \in 1..Len(row) |-> IF k <= Len(wave) THEN wave[k] ELSE row[k]]

\* Lines 158-160: stack the frames, find the width, allocate the tensor.
CollateCall(batch) ==
    /\ cpc = "idle"
    /\ c_batch' = batch
    /\ audio_padded' = ZerosTensor(Len(batch), MaxAudioLen(batch))
    /\ c_i' = 0
    /\ cpc' = "copy"
    /\ UNCHANGED <<indexVars, samplerVars, loaderVars, c_out, collateRest>>

\* Lines 161-163: one iteration of the copy loop.
CollateCopy ==
    /\ cpc = "copy"
    /\ c_i < Len(c_batch)
    /\ audio_padded' = [audio_padded EXCEPT ![c_i + 1] =
                           CopyRow(audio_padded[c_i + 1], c_batch[c_i + 1].audio)]
    /\ c_i' = c_i + 1
    /\ UNCHANGED <<indexVars, samplerVars, loaderVars, cpc, c_batch, c_out, collateRest>>

\* Lines 165-171: the returned batch.
CollateReturn ==
    /\ cpc = "copy"
    /\ c_i = Len(c_batch)
    /\ c_out' = [frame |-> [i \in 1..Len(c_batch) |-> c_batch[i].video_frames],
                 audio |-> audio_padded,
                 vid_nums |-> [i \in 1..Len(c_batch) |-> c_batch[i].vid_num],
                 segment_nums |-> [i \in 1..Len(c_batch) |-> c_batch[i].segment_num],
                 video_paths |-> [i \in 1..Len(c_batch) |-> c_batch[i].video_path]]
    /\ cpc' = "returned"
    /\ UNCHANGED <<indexVars, samplerVars, loaderVars, c_batch, audio_padded, c_i, collateRest>>

----------------------------------------------------------------------------
(* load_and_preprocess_video: the choice of the target and the forward     *)
(* scan, lines 54-73.  The clip holds round(fps) frames at a constant      *)
(* rate; frame i has pts i * tb_den / fps.  Times are kept exact: the      *)
(* float comparison frame.pts > chosen_pts + original_fps/10 is decided as *)
(* 10 * pts > 10 * chosen_pts + original_fps.                              *)
scanRest == <<collateVars, trainVars, ckptVars>>

FrameRates    == {5, 10}       \* native frame rates drawn
TicksPerFrame == {1, 2, 10}    \* tb_den = fps * ticks per frame
SampleFps     == 20            \* sample_fps

\* np.linspace(0, n - 1, count, dtype=int)
LinspaceInt(n, count) ==
    IF count = 1 THEN {0}
    ELSE {(j * (n - 1)) \div (count - 1) : j \in 0..(count - 1)}

\* frame.pts of frame i
Pts(i, fps, den) == (i * den) \div fps

\* int(chosen_index / original_fps / time_base)
ChosenPts(idx, fps, den) == (idx * den) \div fps

\* Lines 54-65: the draw of the target, the seek, the loop variables.
\* The seek goes backward to a key frame at or before the target.
ScanStart(fps, ticks, idx, key) ==
    /\ scan_pc = "idle"
    /\ idx \in LinspaceInt(fps, SampleFps)
    /\ key \in 0..idx
    /\ original_fps' = fps
    /\ tb_den' = fps * ticks
    /\ chosen_index' = idx
    /\ chosen_pts' = ChosenPts(idx, fps, fps * ticks)
    /\ first_frame' = key
    /\ next_frame' = key
    /\ closest_frame' = -1
    /\ min_pts_diff' = -1
    /\ stopped_at' = -1
    /\ scan_pc' = "scanning"
    /\ UNCHANGED <<indexVars, samplerVars, loaderVars, scanRest>>

\* The break test of line 72.
Overshoots(pts, target, fps) == 10 * pts > 10 * target + fps

Abs(x) == IF x < 0 THEN -x ELSE x

\* Lines 66-73: one iteration of the decode loop.
ScanFrame ==
    /\ scan_pc = "scanning"
    /\ next_frame < original_fps
    /\ LET pts == Pts(next_frame, original_fps, tb_den)
           pts_diff == Abs(pts - chosen_pts)
       IN  /\ IF min_pts_diff = -1 \/ pts_diff < min_pts_diff
              THEN /\ min_pts_diff' = pts_diff
                   /\ closest_frame' = next_frame
              ELSE UNCHANGED <<min_pts_diff, closest_frame>>
           /\ IF Overshoots(pts, chosen_pts, original_fps)
              THEN /\ scan_pc' = "stopped"
                   /\ stopped_at' = next_frame
              ELSE UNCHANGED <<scan_pc, stopped_at>>
    /\ next_frame' = next_frame + 1
    /\ UNCHANGED <<indexVars, samplerVars, loaderVars, original_fps, tb_den,
                   chosen_index, chosen_pts, first_frame, scanRest>>

\* The decoder has no more frames: the loop ends without break.
ScanEnd ==
    /\ scan_pc = "scanning"
    /\ next_frame = original_fps
    /\ scan_pc' = "exhausted"
    /\ UNCHANGED <<indexVars, samplerVars, loaderVars, original_fps, tb_den,
                   chosen_index, chosen_pts, first_frame, next_frame,
                   closest_frame, min_pts_diff, stopped_at, scanRest>>

IdleScan ==
    /\ scan_pc = "idle"
    /\ original_fps = 0
    /\ tb_den = 0
    /\ chosen_index = 0
    /\ chosen_pts = 0
    /\ first_frame = 0
    /\ next_frame = 0
    /\ closest_frame = -1
    /\ min_pts_diff = -1
    /\ stopped_at = -1

----------------------------------------------------------------------------
(* AudioVisualTrainer: the scheduler's step budget (__init__, lines        *)
(* 90-159) and the batch loop of train (lines 403-526).  The DataLoader    *)
(* hands the loop the batches of the batch sampler one by one, and its     *)
(* length is the sampler's.  Checkpoints and logging change none of the    *)
(* counters and are left out.                                              *)
trainRest == <<collateVars, scanVars, ckptVars>>

MaxEpochs == 2

GradAccums == {1, 2}

\* The corpora the trainer is run on.
TrainDirs ==
    {ExampleDir, {Stem(1, 0)}, {Stem(1, 0), Stem(2, 0)},
     {Stem(1, 0), Stem(2, 0), Stem(3, 0)}}

\* __init__ from the scheduler on: total_steps = len(dataloader) * num_epochs.
\* OneCycleLR refuses a total_steps that is not positive.
TrainerInit(ne, ga) ==
    /\ tpc = "none"
    /\ spc = "ready"
    /\ num_epochs' = ne
    /\ grad_accum' = ga
    /\ total_steps' = SamplerLen * ne
    /\ tpc' = IF SamplerLen * ne <= 0 THEN "init_raised" ELSE "built"
    /\ UNCHANGED <<indexVars, samplerVars, loaderVars, epoch, consumed,
                   accumulation_counter, sched_calls, global_step, trainRest>>

\* train up to the first epoch: accumulation_counter = 0, epoch = start_epoch.
TrainStart ==
    /\ tpc = "built"
    /\ accumulation_counter' = 0
    /\ epoch' = 0
    /\ consumed' = 0
    /\ tpc' = "epoch"
    /\ UNCHANGED <<indexVars, samplerVars, loaderVars, num_epochs, grad_accum,
                   total_steps, sched_calls, global_step, trainRest>>

\* The loop asks for its next batch: the sampler's generator runs until it
\* yields or ends.
Fetching == tpc = "epoch" /\ (spc = "ready" \/ consumed = Len(emitted))

\* Lines 441-511: one pass of the loop body.  A loss above 10 skips the
\* rest of the body.  A scheduler stepped beyond total_steps raises.
TrainBatch(high) ==
    /\ tpc = "epoch"
    /\ spc \in {"walking", "done"}
    /\ consumed < Len(emitted)
    /\ consumed' = consumed + 1
    /\ IF high
       THEN UNCHANGED <<tpc, accumulation_counter, sched_calls, global_step>>
       ELSE /\ accumulation_counter' = accumulation_counter + 1
            /\ IF (accumulation_counter + 1) % grad_accum = 0
               THEN /\ sched_calls' = sched_calls + 1
                    /\ IF sched_calls + 1 > total_steps
                       THEN /\ tpc' = "sched_raised"
                            /\ global_step' = global_step
                       ELSE /\ tpc' = tpc
                            /\ global_step' = global_step + 1
               ELSE /\ global_step' = global_step + 1
                    /\ UNCHANGED <<tpc, sched_calls>>
    /\ UNCHANGED <<indexVars, samplerVars, loaderVars, num_epochs, grad_accum,
                   total_steps, epoch, trainRest>>

\* The sampler is exhausted: the epoch ends, and the next one iterates the
\* dataloader anew.
EpochEnd ==
    /\ tpc = "epoch"
    /\ spc = "done"
    /\ consumed = Len(emitted)
    /\ epoch' = epoch + 1
    /\ IF epoch + 1 < num_epochs
       THEN /\ spc' = "ready"
            /\ consumed' = 0
            /\ tpc' = tpc
       ELSE /\ tpc' = "done"
            /\ UNCHANGED <<spc, consumed>>
    /\ UNCHANGED <<indexVars, batch_size, all_indices, pos, current_batch,
                   used_vids, emitted, skipped, trailing, loaderVars,
                   num_epochs, grad_accum, total_steps, accumulation_counter,
                   sched_calls, global_step, trainRest>>

IdleTrain ==
    /\ tpc = "none"
    /\ num_epochs = 0
    /\ grad_accum = 0
    /\ total_steps = 0
    /\ epoch = 0
    /\ consumed = 0
    /\ accumulation_counter = 0
    /\ sched_calls = 0
    /\ global_step = 0

----------------------------------------------------------------------------
(* save_checkpoint and find_latest_checkpoint (src/train.py, 193-244).     *)
(* A file name is a sequence of tokens: the words "checkpoint", "epoch",   *)
(* "step", "temp", "pt", the separators "_" and ".", and digits.  A file   *)
(* is "partial" while torch.save is writing it and "complete" after.       *)
ckptRest == <<collateVars, scanVars, trainVars>>

MaxCkptEpoch == 1
MaxCkptStep  == 2
MaxSaves     == 2

\* f'checkpoint_epoch{epoch}_step{step}.pt'
CheckpointName(e, st) ==
    <<"checkpoint", "_", "epoch", DigitChar[e], "_", "step", DigitChar[st],
      ".", "pt">>

\* Path.with_suffix: the last suffix of the name gives way to the new one.
WithSuffix(name, suffix) ==
    LET dots == {k \in 1..Len(name) : name[k] = "."}
        last == CHOOSE k \in dots : \A j \in dots : j <= k
    IN  IF dots = {} THEN name \o suffix
        ELSE SubSeq(name, 1, last - 1) \o suffix

\* checkpoint_path.with_suffix('.temp.pt')
TempName(e, st) ==
    WithSuffix(CheckpointName(e, st), <<".", "temp", ".", "pt">>)

\* glob('checkpoint_epoch*.pt')
GlobMatches(name) ==
    /\ Len(name) >= 5
    /\ SubSeq(name, 1, 3) = <<"checkpoint", "_", "epoch">>
    /\ SubSeq(name, Len(name) - 1, Len(name)) = <<".", "pt">>

\* str.split(sep)
RECURSIVE SplitOn(_, _)
SplitOn(name, sep) ==
    IF name = <<>> THEN << <<>> >>
    ELSE LET rest == SplitOn(Tail(name), sep)
         IN  IF Head(name) = sep THEN << <<>> >> \o rest
             ELSE << <<Head(name)>> \o Head(rest) >> \o Tail(rest)

\* parse_ckpt
ParseCkpt(name) ==
    <<IntOf(SplitOn(SplitOn(name, "epoch")[2], "_")[1]),
      IntOf(SplitOn(SplitOn(name, "step")[2], ".")[1])>>

\* Order of the (epoch, step) keys.
KeyLess(a, b) == a[1] < b[1] \/ (a[1] = b[1] /\ a[2] < b[2])

\* The file system after name is created or truncated with content c.
WriteFile(files, name, c) ==
    {f \in files : f[1] # name} \cup {<<name, c>>}

\* Lines 207-240, up to the moment torch.save has opened temp_path.
SaveOpen(e, st) ==
    /\ kpc = "idle"
    /\ saves < MaxSaves
    /\ saving' = <<e, st>>
    /\ saves' = saves + 1
    /\ fs' = WriteFile(fs, TempName(e, st), "partial")
    /\ kpc' = "writing"
    /\ UNCHANGED <<indexVars, samplerVars, loaderVars, latest, ckptRest>>

\* torch.save returns: the temporary file is whole.
SaveWritten ==
    /\ kpc = "writing"
    /\ fs' = WriteFile(fs, TempName(saving[1], saving[2]), "complete")
    /\ kpc' = "written"
    /\ UNCHANGED <<indexVars, samplerVars, loaderVars, saving, saves, latest,
                   ckptRest>>

\* temp_path.rename(checkpoint_path)
SaveRename ==
    /\ kpc = "written"
    /\ LET temp  == TempName(saving[1], saving[2])
           final == CheckpointName(saving[1], saving[2])
       IN  fs' = WriteFile({f \in fs : f[1] # temp}, final, "complete")
    /\ kpc' = "idle"
    /\ UNCHANGED <<indexVars, samplerVars, loaderVars, saving, saves, latest,
                   ckptRest>>

\* The process is killed inside save_checkpoint; the files stay as they are
\* and a new process starts.
Interrupt ==
    /\ kpc \in {"writing", "written"}
    /\ kpc' = "idle"
    /\ UNCHANGED <<indexVars, samplerVars, loaderVars, fs, saving, saves,
                   latest, ckptRest>>

\* find_latest_checkpoint: max over the glob by parse_ckpt; among files of
\* equal key the one the directory listing gives first.
FindLatest ==
    /\ kpc = "idle"
    /\ LET checkpoints == {f \in fs : GlobMatches(f[1])}
       IN  IF checkpoints = {} THEN latest' = <<"None">>
           ELSE \E f \in checkpoints :
                   /\ \A g \in checkpoints :
                          ~KeyLess(ParseCkpt(f[1]), ParseCkpt(g[1]))
                   /\ latest' = f
    /\ UNCHANGED <<indexVars, samplerVars, loaderVars, kpc, fs, saving, saves,
                   ckptRest>>

IdleCkpt ==
    /\ kpc = "idle"
    /\ fs = {}
    /\ saving = <<>>
    /\ saves = 0
    /\ latest = <<>>

IdleCollate ==
    /\ cpc = "idle"
    /\ c_batch = <<>>
    /\ audio_padded = <<>>
    /\ c_i = 0
    /\ c_out = <<>>

IdleExtra ==
    /\ IdleCollate
    /\ IdleScan
    /\ IdleTrain
    /\ IdleCkpt

----------------------------------------------------------------------------
IdleLoader ==
    /\ lpc = "idle"
    /\ cur_idx = -1
    /\ cond = <<>>
    /\ audio_container = "unbound"
    /\ video_container = "unbound"
    /\ audio_pending = <<>>
    /\ audio = <<>>
    /\ video_frame = <<>>
    /\ exc = "none"
    /\ item = <<>>

NoSampler ==
    /\ batch_size = 0
    /\ spc = "none"
    /\ all_indices = <<>>
    /\ pos = 0
    /\ current_batch = <<>>
    /\ used_vids = {}
    /\ emitted = <<>>
    /\ skipped = {}
    /\ trailing = 0

Init ==
    /\ directory \in Directories
    /\ ds_state = "unbuilt"
    /\ video_files = <<>>
    /\ vid_nums = <<>>
    /\ vid_to_files = <<>>
    /\ NoSampler
    /\ IdleLoader
    /\ IdleExtra

Next ==
    \/ DatasetInit
    \/ \E B \in 1..MaxBatch : SamplerInit(B)
    \/ SamplerIter
    \/ SamplerVisit
    \/ SamplerFinish

Spec == Init /\ [][Next]_vars

\* The loader, started on a constructed dataset.
LoaderInit ==
    /\ directory \in {d \in Directories : BuildIndex(d).ok}
    /\ ds_state = "built"
    /\ video_files = BuildIndex(directory).video_files
    /\ vid_nums = BuildIndex(directory).vid_nums
    /\ vid_to_files = BuildIndex(directory).vid_to_files
    /\ NoSampler
    /\ IdleLoader
    /\ IdleExtra

LoaderNext ==
    \/ \E idx \in 0..(Len(video_files) - 1), c \in Conditions : GetItem(idx, c)
    \/ LoaderStep

LoaderSpec == LoaderInit /\ [][LoaderNext]_vars

\* collate_fn on its own: the samples of a list are given, not loaded.
CollateInit ==
    /\ directory = {}
    /\ ds_state = "unbuilt"
    /\ video_files = <<>>
    /\ vid_nums = <<>>
    /\ vid_to_files = <<>>
    /\ NoSampler
    /\ IdleLoader
    /\ IdleExtra

CollateNext ==
    \/ \E batch \in CollateLists : CollateCall(batch)
    \/ CollateCopy
    \/ CollateReturn

CollateSpec == CollateInit /\ [][CollateNext]_vars

\* The frame scan on its own; the other components stay as CollateInit
\* leaves them.
ScanNext ==
    \/ \E fps \in FrameRates, ticks \in TicksPerFrame :
          \E idx \in 0..(fps - 1), key \in 0..(fps - 1) :
              ScanStart(fps, ticks, idx, key)
    \/ ScanFrame
    \/ ScanEnd

ScanSpec == CollateInit /\ [][ScanNext]_vars

\* A training run: the dataset and the sampler are built, then the trainer.
TrainInit ==
    /\ directory \in TrainDirs
    /\ ds_state = "unbuilt"
    /\ video_files = <<>>
    /\ vid_nums = <<>>
    /\ vid_to_files = <<>>
    /\ NoSampler
    /\ IdleLoader
    /\ IdleExtra

TrainNext ==
    \/ DatasetInit
    \/ \E B \in 1..MaxBatch : SamplerInit(B)
    \/ \E ne \in 1..MaxEpochs, ga \in GradAccums : TrainerInit(ne, ga)
    \/ TrainStart
    \/ Fetching /\ SamplerIter
    \/ Fetching /\ SamplerVisit
    \/ Fetching /\ SamplerFinish
    \/ \E high \in BOOLEAN : TrainBatch(high)
    \/ EpochEnd

TrainSpec == TrainInit /\ [][TrainNext]_vars

\* Checkpoints on their own, from an empty output_dir.
CkptNext ==
    \/ \E e \in 0..MaxCkptEpoch, st \in 0..MaxCkptStep : SaveOpen(e, st)
    \/ SaveWritten
    \/ SaveRename
    \/ Interrupt
    \/ FindLatest

CkptSpec == CollateInit /\ [][CkptNext]_vars

----------------------------------------------------------------------------
(* Properties of the sampler (Spec).                                       *)

\* The source ids of the indices of a batch are pairwise distinct.
Distinct(batch) ==
    \A i, j \in 1..Len(batch) :
        i # j => vid_nums[batch[i] + 1] # vid_nums[batch[j] + 1]

RECURSIVE TotalLen(_)
TotalLen(batches) ==
    IF batches = <<>> THEN 0 ELSE Len(Head(batches)) + TotalLen(Tail(batches))

\* C1: for every corpus, batch size and permutation, no batch emitted by
\* VideoBatchSampler.__iter__ (nor the batch under construction) holds two
\* indices with the same source id.
BatchUnique ==
    /\ \A k \in 1..Len(emitted) : Distinct(emitted[k])
    /\ Distinct(current_batch)

\* C1 witness: a batch of two or more indices was emitted in an epoch in
\* which an index was rejected for its source id.
BatchUniqueWitness ==
    /\ skipped # {}
    /\ \E k \in 1..Len(emitted) : Len(emitted[k]) >= 2

\* C6: every emitted batch is non-empty and has at most B indices, every
\* batch but the last has exactly B, and the trailing batch of fewer than B
\* indices is emitted once, exactly when indices are left in the current
\* batch at the end of the permutation.
BatchSizes ==
    /\ \A k \in 1..Len(emitted) : Len(emitted[k]) \in 1..batch_size
    /\ \A k \in 1..(Len(emitted) - 1) : Len(emitted[k]) = batch_size
    /\ trailing \in {0, 1}
    /\ spc = "walking" =>
          /\ trailing = 0
          /\ \A k \in 1..Len(emitted) : Len(emitted[k]) = batch_size
    /\ spc = "done" =>
          /\ trailing = 1 <=> current_batch # <<>>
          /\ trailing = 1 =>
                /\ emitted[Len(emitted)] = current_batch
                /\ Len(current_batch) < batch_size
          /\ trailing = 0 =>
                \A k \in 1..Len(emitted) : Len(emitted[k]) = batch_size

\* C6 witness: an epoch that ended with full batches followed by one
\* trailing batch.
BatchSizesWitness ==
    /\ spc = "done"
    /\ trailing = 1
    /\ Len(emitted) >= 2

\* The corpus of C7 and C8: three source ids with two segments each, B = 2.
PairsCase == directory = PairsDir /\ spc \in {"walking", "done"} /\ batch_size = 2

\* C7 as stated: in the pairs corpus with B = 2 every emitted batch has
\* exactly 2 samples, with distinct source ids.
PairsAllFull ==
    PairsCase =>
        \A k \in 1..Len(emitted) : Len(emitted[k]) = 2 /\ Distinct(emitted[k])

\* C7 amended: in the pairs corpus with B = 2 every emitted batch has
\* distinct source ids and exactly 2 samples, except that the last batch of
\* the epoch may be a trailing batch of 1 sample.
PairsBatches ==
    PairsCase =>
        \A k \in 1..Len(emitted) :
            /\ Distinct(emitted[k])
            /\ Len(emitted[k]) \in {1, 2}
            /\ Len(emitted[k]) = 1 => (k = Len(emitted) /\ spc = "done")

\* C7 witness: an epoch of the pairs corpus that ended with a batch of one.
PairsBatchesWitness ==
    /\ PairsCase
    /\ spc = "done"
    /\ Len(emitted) = 3
    /\ Len(emitted[3]) = 1

\* C8: in the pairs corpus with B = 2 the batches of one epoch hold at least
\* 4 and at most 6 indices in total.
PairsTotal ==
    (PairsCase /\ spc = "done") => TotalLen(emitted) \in 4..6

\* C8 witness: an epoch of the pairs corpus that emitted only 4 indices.
PairsTotalWitness ==
    /\ PairsCase
    /\ spc = "done"
    /\ TotalLen(emitted) = 4
    /\ Cardinality(skipped) = 2

\* C9 as stated: the declared length N // B is at most the number of
\* batches emitted in the epoch.
LenUndercounts ==
    spc = "done" => SamplerLen <= Len(emitted)

\* C9 amended: the declared length N // B exceeds the number of batches
\* emitted by at most the number of skipped indices, so it undercounts
\* (N // B <= batches) in every epoch without a skip.
LenWithinSkips ==
    spc = "done" =>
        /\ SamplerLen <= Len(emitted) + Cardinality(skipped)
        /\ skipped = {} => SamplerLen <= Len(emitted)

\* C9 witness: an epoch with a skip in which fewer batches were emitted than
\* the declared length.
LenWithinSkipsWitness ==
    /\ spc = "done"
    /\ skipped # {}
    /\ Len(emitted) < SamplerLen

\* C10: a file without a numeric source id is left out of video_files,
\* vid_nums and vid_to_files, and construction succeeds as long as another
\* file parses.
ParseFailureNotFatal ==
    LET good == {st \in directory : VidParses(st)} IN
    (ds_state # "unbuilt" /\ good # {}) =>
        /\ ds_state = "built"
        /\ Range(video_files) = good
        /\ Len(vid_nums) = Cardinality(good)
        /\ \A v \in DOMAIN vid_to_files : Range(vid_to_files[v]) \subseteq good

----------------------------------------------------------------------------
(* Properties of the loader (LoaderSpec).                                  *)

AudioFails == ~cond.readable \/ ~cond.audio_stream \/ ~cond.audio_decodes
VideoFails == \/ ~cond.readable \/ ~cond.video_stream
              \/ ~cond.video_decodes \/ ~cond.frame_found

\* The record the spec calls the sentinel Sample.
IsSentinel(r) ==
    /\ r.vid_num = -1
    /\ r.segment_num = -1
    /\ r.video_frames = [shape |-> <<3, 224, 224>>, zero |-> TRUE]
    /\ r.audio = [len |-> 16331, zero |-> TRUE]

\* C2: whatever is wrong with the file, __getitem__ does not raise, runs to
\* its return and returns one record; for a path that cannot be opened that
\* record is the sentinel.
GetItemAbsorbs ==
    /\ lpc # "raised"
    /\ lpc \notin {"idle", "returned"} => ENABLED LoaderStep
    /\ lpc = "returned" =>
          /\ DOMAIN item = {"video_path", "video_frames", "audio", "vid_num",
                            "segment_num"}
          /\ item.video_path = video_files[cur_idx + 1]
          /\ ~cond.readable => IsSentinel(item)

\* C2 witness: __getitem__ returned the sentinel for an unreadable path.
GetItemAbsorbsWitness ==
    /\ lpc = "returned"
    /\ ~cond.readable
    /\ IsSentinel(item)

\* C3: extract_audio_from_video never raises to its caller, and on every
\* decode error, failure to open included, it returns 16331 zeros.
AudioNeverRaises ==
    /\ lpc # "audio_raised"
    /\ (lpc = "video_open" /\ AudioFails) =>
          audio = [len |-> 16331, zero |-> TRUE]

\* C4: when the audio decode or the video decode of the clip failed, the
\* record __getitem__ returns is the sentinel.
DecodeErrorGivesSentinel ==
    (lpc = "returned" /\ (AudioFails \/ VideoFails)) => IsSentinel(item)

\* C5: once load_and_preprocess_video has opened the container, it has
\* closed it by the time the function is left, by return or by exception.
VideoContainerClosed ==
    (lpc \in {"build_record", "video_raised"} /\ video_container # "unbound")
        => video_container = "closed"

----------------------------------------------------------------------------
(* Properties of collate_fn (CollateSpec).                                 *)

\* C11: the audio tensor has one row per sample and the width of the
\* longest waveform of the list; row i is sample i's waveform below that
\* sample's length and zero from there on; vid_nums, segment_nums and
\* video_paths have the length and the order of the list.
CollatePads ==
    cpc = "returned" =>
        LET n == Len(c_batch)
            w == Len(c_out.audio[1])
        IN  /\ n >= 1
            /\ Len(c_out.audio) = n
            /\ Len(c_out.frame) = n
            /\ \A i \in 1..n : Len(c_out.audio[i]) = w
            /\ \A i \in 1..n : Len(c_batch[i].audio) <= w
            /\ \E i \in 1..n : Len(c_batch[i].audio) = w
            /\ \A i \in 1..n : \A k \in 1..w :
                   c_out.audio[i][k] = IF k <= Len(c_batch[i].audio)
                                        THEN c_batch[i].audio[k] ELSE 0
            /\ Len(c_out.vid_nums) = n
            /\ Len(c_out.segment_nums) = n
            /\ Len(c_out.video_paths) = n
            /\ \A i \in 1..n :
                   /\ c_out.vid_nums[i] = c_batch[i].vid_num
                   /\ c_out.segment_nums[i] = c_batch[i].segment_num
                   /\ c_out.video_paths[i] = c_batch[i].video_path

\* C11 witness: a returned batch of two samples of different lengths, the
\* shorter one not silent, so that padding follows real samples.
CollatePadsWitness ==
    /\ cpc = "returned"
    /\ Len(c_batch) = 2
    /\ Len(c_batch[1].audio) = 1
    /\ c_batch[1].audio[1] = 1
    /\ Len(c_batch[2].audio) = 2
    /\ c_batch[1].vid_num # c_batch[2].vid_num
    /\ c_out.audio[1] = <<1, 0>>

----------------------------------------------------------------------------
(* Properties of the frame scan (ScanSpec).                                *)

\* Frame i lies more than a tenth of a second after the target:
\* pts - chosen_pts > 0.1 / time_base = tb_den / 10.
TenthPast(i) ==
    10 * Pts(i, original_fps, tb_den) > 10 * chosen_pts + tb_den

\* C12: the forward scan stops at the first decoded frame whose timestamp
\* exceeds the target by more than 0.1 / time_base, not at an earlier frame
\* and not at a later one, for every frame rate and time base.
ScanStopsTenthPast ==
    /\ scan_pc = "stopped" => TenthPast(stopped_at)
    /\ scan_pc # "idle" =>
          \A i \in first_frame..(next_frame - 1) :
              TenthPast(i) => (scan_pc = "stopped" /\ stopped_at = i)

----------------------------------------------------------------------------
(* The sampler's output as one sequence (Spec).                            *)

RECURSIVE Flatten(_)
Flatten(batches) ==
    IF batches = <<>> THEN <<>> ELSE Head(batches) \o Flatten(Tail(batches))

\* Everything put in a batch so far this epoch, in order: the batches
\* yielded, and while the walk lasts the batch under construction.
Flat ==
    IF spc = "walking" THEN Flatten(emitted) \o current_batch
    ELSE Flatten(emitted)

\* The position of index x in the permutation.
PosOf(x) == CHOOSE p \in 1..Len(all_indices) : all_indices[p] = x

\* The source id of the index about to be visited is in the batch under
\* construction.
InBatchNow ==
    \E k \in 1..Len(current_batch) :
        vid_nums[current_batch[k] + 1] = vid_nums[all_indices[pos + 1] + 1]

\* The visited prefix of the permutation without the skipped indices.
KeptPrefix ==
    SelectSeq(SubSeq(all_indices, 1, pos), LAMBDA x : x \notin skipped)

SubsequenceOfPermutation ==
    spc \in {"walking", "done"} =>
        /\ Flat = KeptPrefix
        /\ \A i, j \in 1..Len(Flat) : i # j => Flat[i] # Flat[j]
        /\ skipped \cap Range(Flat) = {}

VisitDecides ==
    (spc = "walking" /\ pos' = pos + 1) =>
        IF InBatchNow
        THEN Flat' = Flat /\ all_indices[pos + 1] \in skipped'
        ELSE Flat' = Append(Flat, all_indices[pos + 1]) /\ skipped' = skipped

\* C13: in one epoch the concatenation of the emitted batches is a
\* subsequence of the permutation with each index at most once; an index is
\* in it exactly when its source id was not in the batch under construction
\* at its visit; a skipped index is in no later batch, even one without its
\* source id.
SkippedDropped == []SubsequenceOfPermutation /\ [][VisitDecides]_vars

\* C13 witness: the epoch is over, an index was skipped, and a batch made
\* only of indices visited after it holds no index of its source id.
SkippedDroppedWitness ==
    /\ spc = "done"
    /\ \E x \in skipped, k \in 1..Len(emitted) :
          \A i \in 1..Len(emitted[k]) :
              /\ PosOf(emitted[k][i]) > PosOf(x)
              /\ vid_nums[emitted[k][i] + 1] # vid_nums[x + 1]

----------------------------------------------------------------------------
(* Properties of the training run (TrainSpec).                             *)

\* C14: with gradient_accumulation_steps = 1, over a whole run of train
\* from epoch 0 the calls of scheduler_projection.step() never outnumber
\* the total_steps the scheduler was built with, (N // B) * num_epochs.
SchedulerWithinTotal ==
    (tpc \notin {"none", "init_raised"} /\ grad_accum = 1) =>
        sched_calls <= total_steps

----------------------------------------------------------------------------
(* Properties of the checkpoints (CkptSpec).                               *)

\* C15: find_latest_checkpoint only ever returns a completely written
\* checkpoint: after an interruption anywhere inside save_checkpoint it
\* never selects the partially written temporary file.
LatestIsComplete ==
    Len(latest) = 2 => latest[2] = "complete"

====
